---- MODULE Spec2Model ----
(***************************************************************************)
(* A model of openquake/risklib/reinsurance.py: the treaty split           *)
(* (apply_treaty), the per-policy cessions (claim_to_cessions, by_policy), *)
(* the policy group key (build_policy_grp), the per-event reduction        *)
(* (_by_event) and the recursive aggregate engine (clever_agg).            *)
(*                                                                         *)
(* Amounts are integers counting units of 1e-6, the quantum np.round(v, 6) *)
(* rounds to.  A proportional fraction is n/FracDen.  A numpy array over   *)
(* the events is a sequence, a matrix of shape (E, 2+T) a sequence of E    *)
(* rows, a DataFrame a sequence (treaty_df, policy_df) or a set (rbp) of   *)
(* rows, a row a function of its column names.  Column and row indices are *)
(* 1-based here and 0-based in the source.                                 *)
(***************************************************************************)
EXTENDS Integers, Sequences, FiniteSets, TLC

VARIABLES
    treaty_df,   \* the treaty catalog: rows (id, type, deductible, limit, code)
    policy_df,   \* the policies: rows (policy, <treaty id> ...)
    claims,      \* claims[p][e]: what insured_losses returns for policy p, event e
    pc,          \* the position of the run
    rbp,         \* risk by policy: the concatenated by_policy tables
    eids,        \* _by_event: the sorted unique event ids of rbp
    keys0,       \* _by_event: its list `keys`
    datalist0,   \* _by_event: its list `datalist` (the matrices clever_agg is handed)
    ukeys,       \* clever_agg: parameter ukeys of the current recursion level
    datalist,    \* clever_agg: parameter datalist of the current recursion level
    overdict,    \* clever_agg: the overspill dictionary, code -> array
    level,       \* clever_agg: the number of per-group loops run by this invocation
    prev,        \* history: ukeys and datalist the last per-group loop started from
    stepped,     \* history: newdatalist and each group's excess in the last loop
    members,     \* history: for each current group, the keys of keys0 merged into it
    applied,     \* history: for each loop run, the codes resolved by treaty_df.loc
    res,         \* what clever_agg returned
    res1,        \* what the first of two invocations returned
    call,        \* which invocation of clever_agg is running (1 or 2)
    out,         \* the dictionary claim_to_cessions returned
    slot         \* apply_treaty on one element: its arguments and its result

vars == <<treaty_df, policy_df, claims, pc, rbp, eids, keys0, datalist0, ukeys,
          datalist, overdict, level, prev, stepped, members, applied, res, res1,
          call, out, slot>>

(***************************************************************************)
(* Bounds of the model.                                                    *)
(***************************************************************************)
MaxTreaties == 2    \* catalogs of 0..MaxTreaties treaties
MaxOffset == 3      \* claim_to_cessions is tried on claims b .. b + MaxOffset
MaxAmount == 3      \* apply_treaty is tried on arguments 0..MaxAmount


\* The policies of the portfolio and the events of the loss table.
Policies == {1, 2}
Events == {1, 2}

\* The float 1.0 of `1. - sum(fractions)`: a fraction f is the integer f * FracDen.
FracDen == 4

\* The first symbols of the code alphabet and the sentinel of build_policy_grp.
BASE183 == <<"A", "B", "C", "D">>
Sentinel == "."

\* The names given to the treaties (the `input` attribute of the field map).
TreatyIds == <<"t1", "t2", "t3", "t4">>

(***************************************************************************)
(* Helpers: sums, maxima, sorting.                                         *)
(***************************************************************************)
RECURSIVE SumFn(_, _)
SumFn(f, S) ==
    IF S = {} THEN 0
    ELSE LET x == CHOOSE y \in S : TRUE IN f[x] + SumFn(f, S \ {x})

Max(a, b) == IF a >= b THEN a ELSE b

Abs(a) == IF a >= 0 THEN a ELSE 0 - a

Range(s) == {s[i] : i \in DOMAIN s}

RECURSIVE SortInts(_)
SortInts(S) ==
    IF S = {} THEN <<>>
    ELSE LET m == CHOOSE x \in S : \A y \in S : x <= y
         IN <<m>> \o SortInts(S \ {m})

\* The rank of a key symbol in string order: "." sorts before every code.
Ord(sym) == IF sym = Sentinel THEN 0 ELSE CHOOSE i \in DOMAIN BASE183 : BASE183[i] = sym

\* String comparison of two keys.
KeyLess(a, b) ==
    \/ \E i \in 1..Len(a) :
          /\ i <= Len(b)
          /\ Ord(a[i]) < Ord(b[i])
          /\ \A j \in 1..(i - 1) : a[j] = b[j]
    \/ Len(a) < Len(b) /\ \A j \in 1..Len(a) : a[j] = b[j]

RECURSIVE SortKeys(_)
SortKeys(S) ==
    IF S = {} THEN <<>>
    ELSE LET m == CHOOSE x \in S : \A y \in S \ {x} : KeyLess(x, y)
         IN <<m>> \o SortKeys(S \ {m})

\* np.round on a non-negative rational num/den: to the nearest integer, ties to even.
Round(num, den) ==
    LET q == num \div den
        r == num % den
    IN IF 2 * r < den THEN q
       ELSE IF 2 * r > den THEN q + 1
       ELSE IF q % 2 = 0 THEN q ELSE q + 1

(***************************************************************************)
(* apply_treaty, on one element of the arrays: the new values of           *)
(* retention[i] and cession[i].                                            *)
(***************************************************************************)
\* A split whose saturated branch keeps only the deductible.
apply_treaty_capped(cession, retention, deduc, capacity) ==
    IF retention > deduc
    THEN IF retention - deduc > capacity
         THEN [retention |-> deduc, cession |-> capacity]
         ELSE [retention |-> deduc, cession |-> retention - deduc]
    ELSE [retention |-> retention, cession |-> cession]

apply_treaty(cession, retention, deduc, capacity) ==
    LET overmax == retention - deduc
    IN IF retention > deduc
       THEN IF overmax > capacity
            THEN [retention |-> deduc + overmax - capacity, cession |-> capacity]
            ELSE [retention |-> deduc, cession |-> overmax]
       ELSE [retention |-> retention, cession |-> cession]

(***************************************************************************)
(* claim_to_cessions, on one element of the claim array.  The amounts are  *)
(* kept multiplied by FracDen until the final np.round.                    *)
(***************************************************************************)
TreatiesOfType(tdf, type) == {i \in DOMAIN tdf : tdf[i].type = type}

\* sum(fractions), times FracDen
FractionSum(policy, tdf) ==
    SumFn([i \in TreatiesOfType(tdf, "prop") |-> policy[tdf[i].id]],
          TreatiesOfType(tdf, "prop"))

\* The loop over the wxlr treaties, from catalog position i on: acc.retention is
\* out['retention'], acc.wxl the wxlr columns written so far.
RECURSIVE WxlrLoop(_, _, _, _)
WxlrLoop(i, acc, policy, tdf) ==
    IF i > Len(tdf) THEN acc
    ELSE IF tdf[i].type # "wxlr" THEN WxlrLoop(i + 1, acc, policy, tdf)
    ELSE LET tr == tdf[i]
             r == IF policy[tr.id] # 0
                  THEN apply_treaty(0, acc.retention, tr.deductible * FracDen,
                                    (tr.limit - tr.deductible) * FracDen)
                  ELSE [retention |-> acc.retention, cession |-> 0]
         IN WxlrLoop(i + 1,
                     [retention |-> r.retention,
                      wxl |-> [c \in DOMAIN acc.wxl \cup {tr.id} |->
                                  IF c = tr.id THEN r.cession ELSE acc.wxl[c]]],
                     policy, tdf)

NoColumns == [c \in {} |-> 0]

\* Cessions whose excess-of-loss treaties are applied to the whole claim, not to
\* the retention the proportional treaties left.
claim_to_cessions_gross(claim, policy, tdf) ==
    LET props == {tdf[i].id : i \in TreatiesOfType(tdf, "prop")}
        wxls == {tdf[i].id : i \in TreatiesOfType(tdf, "wxlr")}
        w == WxlrLoop(1, [retention |-> claim * FracDen, wxl |-> NoColumns],
                      policy, tdf)
    IN [k \in {"retention", "claim"} \cup props \cup wxls |->
           IF k = "retention" THEN Round(w.retention, FracDen)
           ELSE IF k = "claim" THEN Round(claim * FracDen, FracDen)
           ELSE IF k \in props THEN Round(claim * policy[k], FracDen)
           ELSE Round(w.wxl[k], FracDen)]

claim_to_cessions(claim, policy, tdf) ==
    LET props == {tdf[i].id : i \in TreatiesOfType(tdf, "prop")}
        wxls == {tdf[i].id : i \in TreatiesOfType(tdf, "wxlr")}
        fsum == FractionSum(policy, tdf)
        w == WxlrLoop(1, [retention |-> claim * (FracDen - fsum), wxl |-> NoColumns],
                      policy, tdf)
    IN [k \in {"retention", "claim"} \cup props \cup wxls |->
           IF k = "retention" THEN Round(w.retention, FracDen)
           ELSE IF k = "claim" THEN Round(claim * FracDen, FracDen)
           ELSE IF k \in props THEN Round(claim * policy[k], FracDen)
           ELSE Round(w.wxl[k], FracDen)]

(***************************************************************************)
(* build_policy_grp: one symbol per treaty, in catalog order.              *)
(***************************************************************************)
build_policy_grp(policy, tdf) ==
    [c \in 1..Len(tdf) |->
        IF tdf[c].type = "catxl" /\ policy[tdf[c].id] = 0 THEN Sentinel
        ELSE tdf[c].code]

(***************************************************************************)
(* by_policy: the rows of one policy, the zero claims discarded; and       *)
(* group_by_policies, the concatenation over the policies.                 *)
(***************************************************************************)
PolicyRow(e, claim, pol, tdf) ==
    LET o == claim_to_cessions(claim, pol, tdf)
    IN [k \in DOMAIN o \cup {"event_id", "policy_id", "policy_grp"} |->
           IF k = "event_id" THEN e
           ELSE IF k = "policy_id" THEN pol["policy"]
           ELSE IF k = "policy_grp" THEN build_policy_grp(pol, tdf)
           ELSE o[k]]

\* A filter on the retention column where the source filters on the claim.
by_policy_retained(agglosses, pol, tdf) ==
    LET all == {PolicyRow(e, agglosses[pol["policy"]][e], pol, tdf) : e \in Events}
    IN {r \in all : r["retention"] > 0}

by_policy(agglosses, pol, tdf) ==
    LET all == {PolicyRow(e, agglosses[pol["policy"]][e], pol, tdf) : e \in Events}
    IN {r \in all : r["claim"] > 0}

group_by_policies(policy_dicts, agglosses, tdf) ==
    UNION {by_policy(agglosses, policy_dicts[i], tdf) : i \in DOMAIN policy_dicts}

(***************************************************************************)
(* _by_event, up to the call of clever_agg: the event index, the columns   *)
(* and one matrix per policy group.                                        *)
(***************************************************************************)
\* inpcols: 'eid', 'claim' and the ids of the treaties that are not catxl
RECURSIVE NonCatIds(_)
NonCatIds(tdf) ==
    IF tdf = <<>> THEN <<>>
    ELSE (IF Head(tdf).type # "catxl" THEN <<Head(tdf).id>> ELSE <<>>)
         \o NonCatIds(Tail(tdf))

inpcols(tdf) == <<"eid", "claim">> \o NonCatIds(tdf)

\* outcols: 'retention', 'claim' and the codes of all the treaties
outcols(tdf) == <<"retention", "claim">> \o [i \in 1..Len(tdf) |-> tdf[i].code]

\* idx: column name -> position in outcols
idx(tdf, col) == CHOOSE i \in DOMAIN outcols(tdf) : outcols(tdf)[i] = col

\* tdf.loc[code]
loc(tdf, code) == tdf[CHOOSE i \in DOMAIN tdf : tdf[i].code = code]

\* np.unique of the event ids, and the position of an event id in it
EventIndex(rows) == SortInts({r["event_id"] : r \in rows})

Eid(ev, e) == CHOOSE i \in DOMAIN ev : ev[i] = e

\* The matrix of one group: column i takes the per-event sum of inpcols[i]
\* (i > 0 in the source, j >= 2 here), retention is claim minus the other columns.
GroupMatrix(grp, ev, tdf) ==
    LET inp == inpcols(tdf)
        W == Len(outcols(tdf))
        filled == [e \in DOMAIN ev |->
                     [j \in 1..W |->
                        IF j >= 2 /\ j <= Len(inp)
                        THEN LET rows == {r \in grp : r["event_id"] = ev[e]}
                             IN SumFn([r \in rows |-> r[inp[j]]], rows)
                        ELSE 0]]
    IN [e \in DOMAIN ev |->
          [filled[e] EXCEPT ![1] = filled[e][2]
                                   - SumFn([c \in 3..W |-> filled[e][c]], 3..W)]]

\* rbp.groupby('policy_grp'): the sorted group keys
GroupKeys(rows) == SortKeys({r["policy_grp"] : r \in rows})

GroupMatrices(rows, tdf) ==
    LET ks == GroupKeys(rows)
        ev == EventIndex(rows)
    IN [g \in DOMAIN ks |->
          GroupMatrix({r \in rows : r["policy_grp"] = ks[g]}, ev, tdf)]

(***************************************************************************)
(* clever_agg: the body of the loop for one (key, data), the loop with the *)
(* overspill dictionary threaded through it, and fast_agg2.                *)
(***************************************************************************)
NoOver(data) == [e \in DOMAIN data |-> 0]

\* What the loop body does to data for the symbol `code`: the new data, whether
\* an excess occurred, and the array `overspill`.
TreatyStep(code, data, tdf) ==
    IF code = Sentinel
    THEN [code |-> code, data |-> data, has_over |-> FALSE, overspill |-> NoOver(data)]
    ELSE
       LET tr == loc(tdf, code)
           ci == idx(tdf, code)
           capacity == tr.limit - tr.deductible
       IN IF tr.type = "catxl"
          THEN LET overspill == [e \in DOMAIN data |->
                                    data[e][1] - tr.deductible - capacity]
                   split == [e \in DOMAIN data |->
                               apply_treaty(data[e][ci], data[e][1],
                                            tr.deductible, capacity)]
               IN [code |-> code,
                   data |-> [e \in DOMAIN data |->
                              [data[e] EXCEPT ![1] = split[e].retention,
                                              ![ci] = split[e].cession]],
                   has_over |-> \E e \in DOMAIN data : overspill[e] > 0,
                   overspill |-> overspill]
          ELSE IF tr.type = "prop"
          THEN LET overspill == [e \in DOMAIN data |-> data[e][ci] - capacity]
               IN [code |-> code,
                   data |-> [e \in DOMAIN data |->
                              IF overspill[e] > 0
                              THEN [data[e] EXCEPT
                                      ![1] = data[e][1] + data[e][ci] - tr.limit,
                                      ![ci] = tr.limit]
                              ELSE data[e]],
                   has_over |-> \E e \in DOMAIN data : overspill[e] > 0,
                   overspill |-> overspill]
          ELSE [code |-> code, data |-> data, has_over |-> FALSE,
                overspill |-> NoOver(data)]

\* A loop body that reads the last symbol of the key where the source reads key[0].
GroupStepLast(key, data, tdf) == TreatyStep(key[Len(key)], data, tdf)

\* code = key[0]
GroupStep(key, data, tdf) == TreatyStep(Head(key), data, tdf)

\* overdict['over_' + code] = np.maximum(overspill, 0)
RecordOver(od, st) ==
    IF st.has_over
    THEN [c \in DOMAIN od \cup {st.code} |->
            IF c = st.code THEN [e \in DOMAIN st.overspill |-> Max(st.overspill[e], 0)]
            ELSE od[c]]
    ELSE od

\* The overspill dictionary after the groups g.. of the loop, in list order.
RECURSIVE OverLoop(_, _, _)
OverLoop(steps, g, od) ==
    IF g > Len(steps) THEN od
    ELSE OverLoop(steps, g + 1, RecordOver(od, steps[g]))

\* fast_agg2(tags, values): the sorted unique tags and the sums by tag.
fast_agg2(tags, values) ==
    LET uniq == SortKeys(Range(tags))
    IN [keys |-> uniq,
        sums |-> [k \in DOMAIN uniq |->
                    LET gs == {g \in DOMAIN tags : tags[g] = uniq[k]}
                    IN [e \in DOMAIN values[1] |->
                          [c \in DOMAIN values[1][e] |->
                             SumFn([g \in gs |-> values[g][e][c]], gs)]]]]

\* One recursion level: the loop over zip(ukeys, datalist), then fast_agg2.
Level(uk, dl, tdf, od) ==
    LET steps == [g \in DOMAIN uk |-> GroupStep(uk[g], dl[g], tdf)]
        newkeys == [g \in DOMAIN uk |-> Tail(uk[g])]
        newdatalist == [g \in DOMAIN uk |-> steps[g].data]
        agg == fast_agg2(newkeys, newdatalist)
    IN [steps |-> steps, newkeys |-> newkeys, newdatalist |-> newdatalist,
        keys |-> agg.keys, sums |-> agg.sums, overdict |-> OverLoop(steps, 1, od)]

\* if len(ukeys) == 1 and ukeys[0] == ''
Terminal(uk) == Len(uk) = 1 /\ uk[1] = <<>>

\* The whole recursion: what clever_agg returns and leaves in overdict.
RECURSIVE clever_agg(_, _, _, _)
clever_agg(uk, dl, tdf, od) ==
    IF Terminal(uk) THEN [res |-> dl[1], overdict |-> od]
    ELSE LET lv == Level(uk, dl, tdf, od)
         IN clever_agg(lv.keys, lv.sums, tdf, lv.overdict)

(***************************************************************************)
(* The inputs: catalogs, policies and claims.                              *)
(***************************************************************************)
\* What parse can put in a catalog row: deductible 0 for a proportional treaty.
TreatyChoices ==
    {[type |-> "prop", deductible |-> 0, limit |-> 100],
     [type |-> "wxlr", deductible |-> 50, limit |-> 150],
     [type |-> "catxl", deductible |-> 50, limit |-> 150]}

MakeCatalog(f) ==
    [i \in DOMAIN f |->
        [id |-> TreatyIds[i], type |-> f[i].type, deductible |-> f[i].deductible,
         limit |-> f[i].limit, code |-> BASE183[i]]]

Catalogs ==
    UNION {{MakeCatalog(f) : f \in [1..n -> TreatyChoices]} : n \in 0..MaxTreaties}

\* The policies of one catalog: a fraction for each proportional treaty, their sum
\* at most 1 (check_fractions), a flag for each other treaty.
PolicyDicts(p, tdf, fractions) ==
    LET ids == {tdf[i].id : i \in DOMAIN tdf}
        typeOf(id) == (CHOOSE i \in DOMAIN tdf : tdf[i].id = id)
        parts == {f \in [ids -> fractions \cup {0, 1}] :
                    /\ \A i \in DOMAIN tdf :
                          f[tdf[i].id] \in (IF tdf[i].type = "prop" THEN fractions
                                            ELSE {0, 1})
                    /\ SumFn([i \in TreatiesOfType(tdf, "prop") |-> f[tdf[i].id]],
                             TreatiesOfType(tdf, "prop")) <= FracDen}
    IN {[k \in ids \cup {"policy"} |-> IF k = "policy" THEN p ELSE f[k]] : f \in parts}

PolicyTables(tdf, fractions) ==
    {t \in [Policies -> UNION {PolicyDicts(p, tdf, fractions) : p \in Policies}] :
        \A p \in Policies : t[p]["policy"] = p}

ClaimValues == {0, 200}
HalfOrNothing == {0, FracDen \div 2}

Unused == <<>>
NoOverspill == [c \in {} |-> <<>>]

(***************************************************************************)
(* The run of by_policy_event: group_by_policies, then _by_event with the  *)
(* recursion of clever_agg one level per step, then the sanity check.      *)
(***************************************************************************)
Init ==
    /\ treaty_df \in Catalogs
    /\ policy_df \in PolicyTables(treaty_df, HalfOrNothing)
    /\ claims \in [Policies -> [Events -> ClaimValues]]
    /\ pc = "by_policy"
    /\ rbp = {}
    /\ eids = <<>>
    /\ keys0 = <<>>
    /\ datalist0 = <<>>
    /\ ukeys = <<>>
    /\ datalist = <<>>
    /\ overdict = NoOverspill
    /\ level = 0
    /\ prev = Unused
    /\ stepped = Unused
    /\ members = <<>>
    /\ applied = <<>>
    /\ res = Unused
    /\ res1 = Unused
    /\ call = 0
    /\ out = Unused
    /\ slot = Unused

GroupByPolicies ==
    /\ pc = "by_policy"
    /\ rbp' = group_by_policies(policy_df, claims, treaty_df)
    /\ pc' = "by_event"
    /\ UNCHANGED <<treaty_df, policy_df, claims, eids, keys0, datalist0, ukeys,
                   datalist, overdict, level, prev, stepped, members, applied, res,
                   res1, call, out, slot>>

\* _by_event up to its call of clever_agg.
ByEvent ==
    /\ pc = "by_event"
    /\ rbp # {}
    /\ eids' = EventIndex(rbp)
    /\ keys0' = GroupKeys(rbp)
    /\ datalist0' = GroupMatrices(rbp, treaty_df)
    /\ ukeys' = keys0'
    /\ datalist' = datalist0'
    /\ overdict' = NoOverspill
    /\ level' = 0
    /\ members' = [g \in DOMAIN keys0' |-> {keys0'[g]}]
    /\ applied' = <<>>
    /\ call' = 1
    /\ pc' = "clever_agg"
    /\ UNCHANGED <<treaty_df, policy_df, claims, rbp, prev, stepped, res, res1, out,
                   slot>>

\* No row has a positive claim: there is no group, clever_agg never meets its
\* terminal case and the run ends in an exception.
ByEventEmpty ==
    /\ pc = "by_event"
    /\ rbp = {}
    /\ pc' = "failed"
    /\ UNCHANGED <<treaty_df, policy_df, claims, rbp, eids, keys0, datalist0, ukeys,
                   datalist, overdict, level, prev, stepped, members, applied, res,
                   res1, call, out, slot>>

\* One level of clever_agg.  The loop writes through views of the matrices it was
\* handed: at the first level these are the caller's.
CleverAggStep ==
    /\ pc = "clever_agg"
    /\ ~Terminal(ukeys)
    /\ LET lv == Level(ukeys, datalist, treaty_df, overdict)
       IN /\ ukeys' = lv.keys
          /\ datalist' = lv.sums
          /\ overdict' = lv.overdict
          /\ datalist0' = IF level = 0 THEN lv.newdatalist ELSE datalist0
          /\ prev' = [ukeys |-> ukeys, datalist |-> datalist]
          /\ stepped' = lv.steps
          /\ members' = [k \in DOMAIN lv.keys |->
                           UNION {members[g] : g \in {h \in DOMAIN ukeys :
                                                        lv.newkeys[h] = lv.keys[k]}}]
          /\ applied' = Append(applied, {lv.steps[g].code : g \in DOMAIN ukeys}
                                        \ {Sentinel})
    /\ level' = level + 1
    /\ UNCHANGED <<treaty_df, policy_df, claims, pc, rbp, eids, keys0, res, res1,
                   call, out, slot>>

CleverAggReturn ==
    /\ pc = "clever_agg"
    /\ Terminal(ukeys)
    /\ res' = datalist[1]
    /\ pc' = "returned"
    /\ UNCHANGED <<treaty_df, policy_df, claims, rbp, eids, keys0, datalist0, ukeys,
                   datalist, overdict, level, prev, stepped, members, applied, res1,
                   call, out, slot>>

\* cession + ret == claim, row by row (np.testing.assert_allclose: its relative
\* tolerance of 1e-7 is below one unit for every amount of the model).
Reconciled(m) ==
    \A e \in DOMAIN m :
        SumFn([c \in 3..Len(m[e]) |-> m[e][c]], 3..Len(m[e])) + m[e][1] = m[e][2]

SanityCheck ==
    /\ pc = "returned"
    /\ call = 1
    /\ \/ Reconciled(res) /\ pc' = "done"
       \/ ~Reconciled(res) /\ pc' = "failed"
    /\ UNCHANGED <<treaty_df, policy_df, claims, rbp, eids, keys0, datalist0, ukeys,
                   datalist, overdict, level, prev, stepped, members, applied, res,
                   res1, call, out, slot>>

Next ==
    \/ GroupByPolicies
    \/ ByEvent
    \/ ByEventEmpty
    \/ CleverAggStep
    \/ CleverAggReturn
    \/ SanityCheck

Spec == Init /\ [][Next]_vars

(***************************************************************************)
(* clever_agg invoked a second time by its caller, on the same list of     *)
(* keys, the same list of matrices and the same overspill dictionary.      *)
(***************************************************************************)
Reinvoke ==
    /\ pc = "returned"
    /\ call = 1
    /\ res1' = [res |-> res, overdict |-> overdict]
    /\ call' = 2
    /\ ukeys' = keys0
    /\ datalist' = datalist0
    /\ level' = 0
    /\ members' = [g \in DOMAIN keys0 |-> {keys0[g]}]
    /\ applied' = <<>>
    /\ pc' = "clever_agg"
    /\ UNCHANGED <<treaty_df, policy_df, claims, rbp, eids, keys0, datalist0,
                   overdict, prev, stepped, res, out, slot>>

NextTwice ==
    \/ GroupByPolicies
    \/ ByEvent
    \/ ByEventEmpty
    \/ CleverAggStep
    \/ CleverAggReturn
    \/ Reinvoke

SpecTwice == Init /\ [][NextTwice]_vars

(***************************************************************************)
(* claim_to_cessions alone, on one claim of one policy.                    *)
(***************************************************************************)
CessionClaims == {b + k : b \in {0, 100, 200}, k \in 0..MaxOffset}

InitCessions ==
    /\ treaty_df \in Catalogs
    /\ policy_df \in {<<pol>> : pol \in PolicyDicts(1, treaty_df, 0..FracDen)}
    /\ claims \in {<<<<c>>>> : c \in CessionClaims}
    /\ pc = "cessions"
    /\ rbp = {}
    /\ eids = <<>>
    /\ keys0 = <<>>
    /\ datalist0 = <<>>
    /\ ukeys = <<>>
    /\ datalist = <<>>
    /\ overdict = NoOverspill
    /\ level = 0
    /\ prev = Unused
    /\ stepped = Unused
    /\ members = <<>>
    /\ applied = <<>>
    /\ res = Unused
    /\ res1 = Unused
    /\ call = 0
    /\ out = Unused
    /\ slot = Unused

ClaimToCessions ==
    /\ pc = "cessions"
    /\ out' = claim_to_cessions(claims[1][1], policy_df[1], treaty_df)
    /\ pc' = "ceded"
    /\ UNCHANGED <<treaty_df, policy_df, claims, rbp, eids, keys0, datalist0, ukeys,
                   datalist, overdict, level, prev, stepped, members, applied, res,
                   res1, call, slot>>

SpecCessions == InitCessions /\ [][ClaimToCessions]_vars

(***************************************************************************)
(* apply_treaty alone, on one element: slot.cession and slot.retention are *)
(* the elements of the two arrays, before and after the call.              *)
(***************************************************************************)
InitTreaty ==
    /\ slot \in {[cession0 |-> c, retention0 |-> r, deduc |-> d, capacity |-> k,
                  cession |-> c, retention |-> r] :
                    c \in 0..MaxAmount, r \in 0..MaxAmount, d \in 0..MaxAmount,
                    k \in 0..MaxAmount}
    /\ pc = "treaty"
    /\ treaty_df = <<>>
    /\ policy_df = <<>>
    /\ claims = <<>>
    /\ rbp = {}
    /\ eids = <<>>
    /\ keys0 = <<>>
    /\ datalist0 = <<>>
    /\ ukeys = <<>>
    /\ datalist = <<>>
    /\ overdict = NoOverspill
    /\ level = 0
    /\ prev = Unused
    /\ stepped = Unused
    /\ members = <<>>
    /\ applied = <<>>
    /\ res = Unused
    /\ res1 = Unused
    /\ call = 0
    /\ out = Unused

ApplyTreaty ==
    /\ pc = "treaty"
    /\ LET r == apply_treaty(slot.cession, slot.retention, slot.deduc, slot.capacity)
       IN slot' = [slot EXCEPT !.cession = r.cession, !.retention = r.retention]
    /\ pc' = "split"
    /\ UNCHANGED <<treaty_df, policy_df, claims, rbp, eids, keys0, datalist0, ukeys,
                   datalist, overdict, level, prev, stepped, members, applied, res,
                   res1, call, out>>

SpecTreaty == InitTreaty /\ [][ApplyTreaty]_vars

(***************************************************************************)
(* Properties of apply_treaty (SpecTreaty).                                *)
(***************************************************************************)
\* C3: whatever the cession slot held before the call, apply_treaty leaves
\* (r, 0) when r <= d, (d, r - d) when d < r <= d + c and (d + (r - d - c), c) when
\* r > d + c, so that retention + cession = r afterwards.
C3_TreatySplit ==
    pc = "split" =>
        LET r == slot.retention0
            d == slot.deduc
            c == slot.capacity
        IN /\ r <= d => slot.retention = r /\ slot.cession = 0
           /\ (d < r /\ r <= d + c) => slot.retention = d /\ slot.cession = r - d
           /\ r > d + c => slot.retention = d + (r - d - c) /\ slot.cession = c
           /\ slot.retention + slot.cession = r

(***************************************************************************)
(* Properties of claim_to_cessions (SpecCessions).                         *)
(***************************************************************************)
CededTo(ids) == SumFn([k \in ids |-> out[k]], ids)

PropIds == {treaty_df[i].id : i \in TreatiesOfType(treaty_df, "prop")}

WxlrIds == {treaty_df[i].id : i \in TreatiesOfType(treaty_df, "wxlr")}

\* C7 as stated: the cessions of the output sum to C*f and its retention is
\* C*(1-f), both within 1e-6 (one unit).
C7_ProportionalSplit ==
    pc = "ceded" =>
        LET C == claims[1][1]
            f == FractionSum(policy_df[1], treaty_df)
        IN /\ Abs(FracDen * CededTo(PropIds \cup WxlrIds) - C * f) <= FracDen
           /\ Abs(FracDen * out["retention"] - C * (FracDen - f)) <= FracDen

\* C7 amended: the cessions of the proportional treaties sum to C*f, and the
\* retention plus the cessions of the per-policy excess-of-loss treaties is
\* C*(1-f), each within half a unit (0.5e-6) per rounded column.
C7_ProportionalSplitNetOfWxlr ==
    pc = "ceded" =>
        LET C == claims[1][1]
            f == FractionSum(policy_df[1], treaty_df)
        IN /\ 2 * Abs(FracDen * CededTo(PropIds) - C * f)
                <= FracDen * Cardinality(PropIds)
           /\ 2 * Abs(FracDen * (out["retention"] + CededTo(WxlrIds))
                      - C * (FracDen - f))
                <= FracDen * (1 + Cardinality(WxlrIds))

\* A policy with a positive proportional share whose claim is rounded and cedes
\* to a per-policy excess-of-loss treaty as well.
C7_Witness ==
    /\ pc = "ceded"
    /\ FractionSum(policy_df[1], treaty_df) > 0
    /\ CededTo(WxlrIds) > 0
    /\ (claims[1][1] * FractionSum(policy_df[1], treaty_df)) % FracDen # 0

(***************************************************************************)
(* Properties of the run (Spec).                                           *)
(***************************************************************************)
T == Len(treaty_df)

\* Every catastrophe treaty is declared after every other treaty.
CatLast(tdf) ==
    \A i, j \in DOMAIN tdf : (i < j /\ tdf[i].type = "catxl") => tdf[j].type = "catxl"

\* The column of the treaty at catalog position i in a row of a matrix.
Ceded(row, i) == row[idx(treaty_df, treaty_df[i].code)]

\* C1: in every row clever_agg returns to _by_event, the cession columns and the
\* retention add up to the claim, whatever the catalog and the portfolio.
C1_Reconciliation ==
    pc = "returned" =>
        \A e \in DOMAIN res :
            SumFn([i \in DOMAIN treaty_df |-> Ceded(res[e], i)], DOMAIN treaty_df)
              + res[e][idx(treaty_df, "retention")]
            = res[e][idx(treaty_df, "claim")]

\* C2, on the catalogs that declare their catastrophe treaties last: in every
\* row clever_agg returns, a catastrophe treaty is ceded at most limit - deductible
\* and a proportional treaty at most limit.
C2_PortfolioCapacity ==
    (pc = "returned" /\ CatLast(treaty_df)) =>
        \A e \in DOMAIN res : \A i \in DOMAIN treaty_df :
            /\ treaty_df[i].type = "catxl" =>
                  Ceded(res[e], i) <= treaty_df[i].limit - treaty_df[i].deductible
            /\ treaty_df[i].type = "prop" => Ceded(res[e], i) <= treaty_df[i].limit

\* The groups of the last loop that resolved `code` and produced an excess.
Exceeding(code) == {g \in DOMAIN stepped : stepped[g].code = code /\ stepped[g].has_over}

RECURSIVE MaxOver(_, _)
MaxOver(G, e) ==
    IF G = {} THEN 0
    ELSE LET g == CHOOSE h \in G : TRUE
         IN Max(Max(stepped[g].overspill[e], 0), MaxOver(G \ {g}, e))

\* C5: when two or more groups of one level produce an excess for the same code,
\* the overspill recorded under the code is, event by event, the maximum of the
\* positive parts of their excesses.
C5_OverspillMerge ==
    level >= 1 =>
        \A i \in DOMAIN treaty_df :
            LET code == treaty_df[i].code
            IN Cardinality(Exceeding(code)) >= 2 =>
                  /\ code \in DOMAIN overdict
                  /\ \A e \in DOMAIN overdict[code] :
                        overdict[code][e] = MaxOver(Exceeding(code), e)

\* The rows of rbp behind one group matrix at one event.
RowsOf(g, e) == {r \in rbp : r["policy_grp"] = keys0[g] /\ r["event_id"] = eids[e]}

\* C10: in each matrix _by_event hands to clever_agg, the column of a treaty's
\* code holds the group's sum of that treaty's per-policy cessions, and 0 for a
\* catastrophe treaty; and a catastrophe treaty's column is 0 in every group when
\* the level of that treaty starts.
C10_ColumnAlignment ==
    /\ (pc = "clever_agg" /\ call = 1 /\ level = 0) =>
          \A g \in DOMAIN datalist : \A e \in DOMAIN eids : \A i \in DOMAIN treaty_df :
              Ceded(datalist[g][e], i)
              = IF treaty_df[i].type = "catxl" THEN 0
                ELSE SumFn([r \in RowsOf(g, e) |-> r[treaty_df[i].id]], RowsOf(g, e))
    /\ (pc = "clever_agg" /\ call = 1 /\ level < T
          /\ treaty_df[level + 1].type = "catxl") =>
          \A g \in DOMAIN datalist : \A e \in DOMAIN eids :
              Ceded(datalist[g][e], level + 1) = 0

\* The overspill recorded under a code at an event: 0 when none was recorded.
Recorded(code, e) == IF code \in DOMAIN overdict THEN overdict[code][e] ELSE 0

\* The last loop ran on a single group whose leading symbol is the code of a
\* catastrophe treaty with deductible 50 and limit 150.
SingleGroupCat50To150 ==
    /\ level >= 1
    /\ Len(prev.ukeys) = 1
    /\ Head(prev.ukeys[1]) # Sentinel
    /\ LET tr == loc(treaty_df, Head(prev.ukeys[1]))
       IN tr.type = "catxl" /\ tr.deductible = 50 /\ tr.limit = 150

\* C6 as stated: in that case an aggregate retention of 200 becomes retention 100
\* and cession 100, and the overspill recorded for the treaty is 0.
C6_SaturatedNoOverspill ==
    SingleGroupCat50To150 =>
        LET code == Head(prev.ukeys[1])
        IN \A e \in DOMAIN prev.datalist[1] :
              prev.datalist[1][e][idx(treaty_df, "retention")] = 200 =>
                 /\ stepped[1].data[e][idx(treaty_df, "retention")] = 100
                 /\ stepped[1].data[e][idx(treaty_df, code)] = 100
                 /\ Recorded(code, e) = 0

\* C6 amended: retention 100, cession 100, and the overspill recorded for the
\* treaty is 50, the part of the retention above deductible + capacity.
C6_SaturatedOverspill50 ==
    SingleGroupCat50To150 =>
        LET code == Head(prev.ukeys[1])
        IN \A e \in DOMAIN prev.datalist[1] :
              prev.datalist[1][e][idx(treaty_df, "retention")] = 200 =>
                 /\ stepped[1].data[e][idx(treaty_df, "retention")] = 100
                 /\ stepped[1].data[e][idx(treaty_df, code)] = 100
                 /\ Recorded(code, e) = 50

C6_Witness ==
    /\ SingleGroupCat50To150
    /\ \E e \in DOMAIN prev.datalist[1] :
          prev.datalist[1][e][idx(treaty_df, "retention")] = 200

\* The per-policy rows with no row discarded, and the per-event table _by_event
\* and clever_agg make of a set of rows.
AllRows ==
    UNION {{PolicyRow(e, claims[p][e], policy_df[p], treaty_df) : e \in Events} :
             p \in Policies}

EventTable(rows) ==
    [event_id |-> EventIndex(rows),
     res |-> clever_agg(GroupKeys(rows), GroupMatrices(rows, treaty_df), treaty_df,
                        NoOverspill).res]

\* C8 as stated: the rows of rbp are the rows with a positive claim, and the
\* per-event table is the one the rows with a zero claim would give if kept: the
\* same events, the same retention, claim and cessions.
C8_ZeroClaimExclusion ==
    pc = "returned" =>
        \A all \in {AllRows} : \A kept \in {EventTable(all)} :
           /\ rbp = {r \in all : r["claim"] > 0}
           /\ eids = kept.event_id
           /\ res = kept.res

\* C8 amended: the rows of rbp are the rows with a positive claim; every event
\* of the per-event table has the row it would have if the rows with a zero claim
\* were kept; and the events the table lacks are those with no positive claim,
\* whose row would be all zeros.
C8_ZeroClaimExclusionPerEvent ==
    pc = "returned" =>
        \A all \in {AllRows} : \A kept \in {EventTable(all)} :
           /\ rbp = {r \in all : r["claim"] > 0}
           /\ \A i \in DOMAIN eids : res[i] = kept.res[Eid(kept.event_id, eids[i])]
           /\ \A k \in DOMAIN kept.event_id :
                 kept.event_id[k] \notin Range(eids) =>
                    /\ \A p \in Policies : claims[p][kept.event_id[k]] <= 0
                    /\ \A c \in DOMAIN kept.res[k] : kept.res[k][c] = 0

\* A table that lacks an event and has an event where one policy has no claim.
C8_Witness ==
    /\ pc = "returned"
    /\ Len(eids) < Cardinality(Events)
    /\ \E i \in DOMAIN eids : \E p, q \in Policies :
          claims[p][eids[i]] = 0 /\ claims[q][eids[i]] > 0

\* C9: all keys of a level have the same length, T minus the loops run; the
\* terminal case is met after exactly T loops and not before; the k-th loop
\* resolves no treaty but the k-th of the catalog; the keys of a level are
\* distinct and each group holds the groups of keys0 whose key ends in its key.
C9_OrderedReduction ==
    call >= 1 =>
        /\ level <= T
        /\ Len(applied) = level
        /\ \A g \in DOMAIN ukeys : Len(ukeys[g]) = T - level
        /\ \A g, h \in DOMAIN ukeys : ukeys[g] = ukeys[h] => g = h
        /\ Terminal(ukeys) <=> level = T
        /\ pc \in {"returned", "done", "failed"} => level = T
        /\ \A k \in DOMAIN applied : applied[k] \subseteq {treaty_df[k].code}
        /\ \A g \in DOMAIN members : \A m \in members[g] :
              /\ m \in Range(keys0)
              /\ SubSeq(m, level + 1, Len(m)) = ukeys[g]
        /\ UNION {members[g] : g \in DOMAIN members} = Range(keys0)

\* A run of two levels that merged two groups and returned.
C9_Witness ==
    /\ pc = "returned"
    /\ T = 2
    /\ Len(keys0) >= 2
    /\ level = 2
    /\ applied = <<{"A"}, {"B"}>>
    /\ Cardinality(members[1]) >= 2

(***************************************************************************)
(* Properties of two invocations in a row (SpecTwice).                     *)
(***************************************************************************)
\* C4: the second invocation of clever_agg on the same keys, matrices and
\* overspill dictionary returns what the first returned and leaves the same
\* overspill.
C4_Idempotence ==
    (pc = "returned" /\ call = 2) => (res = res1.res /\ overdict = res1.overdict)

====
